---------------------------- MODULE Spec2Model ----------------------------
(***************************************************************************)
(* Model of backend/app.py: the websocket relay between a browser client   *)
(* and the Deepgram realtime API (websocket_transcribe with its two pumps  *)
(* deepgram_receiver and client_audio_sender) and the in-memory session    *)
(* store SESSIONS.                                                          *)
(*                                                                         *)
(* Scheduling: every coroutine runs on one asyncio event loop, so the code *)
(* between two awaits is one atomic step.  An action is the completion of  *)
(* the await a coroutine is suspended in, followed by the code up to, and  *)
(* including the call of, the next await.                                  *)
(***************************************************************************)
EXTENDS Integers, Sequences, FiniteSets, TLC

(* ------------------------------ bounds --------------------------------- *)
\* upstream connections one relay session may open
MaxUpstream == 2
\* inputs (upstream payloads and client frames) one relay session takes
MaxInputs == 2
\* inputs two concurrent relay sessions take together
MaxSharedInputs == 3
\* messages a session holds when it is summarized
MaxStored == 2

ConnIds == {"c1", "c2"}
SessionIds == {"s1", "s2"}

(* --------------------------- upstream payloads ------------------------- *)
\* A wire payload of the upstream websocket, described by the features the
\* decoder reads:
\*   json        the text parses as JSON
\*   object      the JSON value is an object (a dict)
\*   alts        channel.alternatives: "absent" (key or channel missing),
\*               "empty" (an empty list), "one" (a list whose first element
\*               is an object)
\*   transcript  alternatives[0].transcript ("" also stands for a missing key)
\*   words       alternatives[0].words is present and not null
\*   is_final    the top-level is_final (FALSE also stands for a missing key)
Texts == {"", "hello"}

EventPayloads ==
    [json : {TRUE}, object : {TRUE}, alts : {"one"}, transcript : Texts,
     words : BOOLEAN, is_final : BOOLEAN]

\* the events that carry word-level timing data
WordPayloads == {p \in EventPayloads : p.words}

BadJson ==
    [json |-> FALSE, object |-> FALSE, alts |-> "absent", transcript |-> "",
     words |-> FALSE, is_final |-> FALSE]

NonObject ==
    [json |-> TRUE, object |-> FALSE, alts |-> "absent", transcript |-> "",
     words |-> FALSE, is_final |-> FALSE]

EmptyAlternatives ==
    [json |-> TRUE, object |-> TRUE, alts |-> "empty", transcript |-> "",
     words |-> FALSE, is_final |-> TRUE]

NoChannel ==
    [json |-> TRUE, object |-> TRUE, alts |-> "absent", transcript |-> "",
     words |-> FALSE, is_final |-> FALSE]

Payloads == EventPayloads \cup {BadJson, NonObject, EmptyAlternatives, NoChannel}

NoPayload ==
    [json |-> FALSE, object |-> FALSE, alts |-> "none", transcript |-> "",
     words |-> FALSE, is_final |-> FALSE]

\* mutant: the failure of json.loads is not caught where it is raised
JsonLoadsFails_Never(p) == FALSE

\* json.loads(raw_msg) raises
JsonLoadsFails(p) == ~p.json

\* data.get("channel", {}).get("alternatives", [{}])[0] raises: data is not a
\* dict (AttributeError) or the list is empty (IndexError)
AltRaises(p) == ~p.object \/ p.alts = "empty"

\* alt.get("transcript", "")
Transcript(p) == IF p.alts = "one" THEN p.transcript ELSE ""

\* mutant: the top-level flag alone decides
IsFinal_FlagOnly(p) == p.is_final

\* alt.get("words") is not None and data.get("is_final", False)
IsFinal(p) == (p.alts = "one" /\ p.words) /\ p.is_final

\* mutant: the message is stored and sent whatever its text
HasTranscript_Always(p) == TRUE

\* "if transcript:"
HasTranscript(p) == Transcript(p) # ""

\* msg_obj
MsgObj(p) == [transcript |-> Transcript(p), is_final |-> IsFinal(p)]

(* ------------------------------ client events -------------------------- *)
Event(kind, text, fin) == [kind |-> kind, text |-> text, is_final |-> fin]
StatusEvent(s) == Event("status", s, FALSE)
ErrorEvent(s) == Event("error", s, FALSE)
TranscriptEvent(m) == Event("transcript", m.transcript, m.is_final)

(* ------------------------------ client frames -------------------------- *)
\* A message returned by websocket.receive() with type "websocket.receive":
\*   bytes   the binary payload ("" when the frame is a text frame)
\*   text    what the text payload is: "" (none), "notjson", "noaudio"
\*           (JSON without a non-empty audio value), "badb64" (an audio
\*           string on which base64.b64decode raises: wrong padding), "b64"
\*           (the base64 of pcm), "b64junk" (an audio string with characters
\*           outside the base64 alphabet: b64decode discards them and decodes
\*           the rest to pcm, which may be empty)
\*   pcm     what base64.b64decode returns for the audio string
Frames ==
    {[bytes |-> "a1", text |-> "", pcm |-> ""],
     [bytes |-> "", text |-> "b64", pcm |-> "a2"],
     [bytes |-> "", text |-> "b64junk", pcm |-> "a3"],
     [bytes |-> "", text |-> "b64junk", pcm |-> ""],
     [bytes |-> "", text |-> "badb64", pcm |-> ""],
     [bytes |-> "", text |-> "notjson", pcm |-> ""],
     [bytes |-> "", text |-> "noaudio", pcm |-> ""]}

VARIABLES
    cred,         \* DEEPGRAM_API_KEY is set
    SESSIONS,     \* the session store
    session_id,   \* per relay session: the path parameter
    mainPc,       \* position of websocket_transcribe
    recvPc,       \* position of deepgram_receiver
    sendPc,       \* position of client_audio_sender
    dg_ws,        \* the upstream handle: 0 is None, n the n-th connection
    dgConns,      \* state of every upstream connection the session opened
    stop_flag,
    client,       \* the client connection: "none", "open", "gone", "closed"
    sendLog,      \* every websocket.send_json call with its outcome
    raw_msg,      \* the payload deepgram_receiver took last
    recvExc,      \* the exception deepgram_receiver's handler caught last
    audioOut,     \* audio passed to dg_ws.send: <<connection, bytes>>
    pendingAudio, \* the dg_ws.send in flight: <<connection, bytes>>
    appendLog,    \* history: per session id, <<relay session, message>> appended
    closeCalls,   \* history: close() calls of the cleanup and their outcome
    inputsLeft,   \* inputs the environment may still deliver
    frameLog,     \* history: the client frames with audio that
                  \* websocket.receive() returned, each with the upstream
                  \* handle that was live then (0: none)
    gemKey,       \* GEMINI_API_KEY is set
    sumPc,        \* position of summarize: "idle", "post", "read_text",
                  \* "read_json", "close_return", "close_raise", "done", "raised"
    resp,         \* the response whose head the POST returned
    sumReq,       \* req.session_id
    transcript_texts,
    last_error,   \* what the last POST to the external summarizer failed with
    gemPosts,     \* history: the base urls posted to
    sumResp       \* the SessionSummaryResponse returned

\* the state of the summarize request
sumVars ==
    <<gemKey, sumPc, resp, sumReq, transcript_texts, last_error, gemPosts, sumResp>>

vars ==
    <<cred, SESSIONS, session_id, mainPc, recvPc, sendPc, dg_ws, dgConns,
      stop_flag, client, sendLog, raw_msg, recvExc, audioOut, pendingAudio,
      appendLog, closeCalls, inputsLeft, frameLog, sumVars>>


Conns == ConnIds

(* ------------------------------ session store -------------------------- *)
\* mutant: SESSIONS[session_id] = {"messages": []}, an assignment
SetDefault_Overwrites(S, s) ==
    [S EXCEPT ![s] = [present |-> TRUE, messages |-> <<>>]]

\* SESSIONS.setdefault(session_id, {"messages": []})
SetDefault(S, s) ==
    IF S[s].present THEN S
    ELSE [S EXCEPT ![s] = [present |-> TRUE, messages |-> <<>>]]

\* mutant: the list is replaced by one holding the new message
StoreAppend_KeepsLast(S, s, m) == [S EXCEPT ![s].messages = <<m>>]

\* mutant: only a final message is appended
StoreAppend_FinalOnly(S, s, m) ==
    IF m.is_final THEN [S EXCEPT ![s].messages = Append(@, m)] ELSE S

\* SESSIONS[session_id]["messages"].append(msg_obj)
StoreAppend(S, s, m) == [S EXCEPT ![s].messages = Append(@, m)]

\* SESSIONS.get(req.session_id, {}).get("messages", [])
ReadAll(S, s) == IF S[s].present THEN S[s].messages ELSE <<>>

(* ------------------------------ summarization -------------------------- *)
\* the texts a stored message can carry when it is summarized: a word, a
\* phrase with a trailing blank, whitespace only, and lines of 200 and of
\* 201 characters; none contains a line break
Line200 ==
    "xxxxxxxxxxxxxxxxxxxxxxxxxxxxxxxxxxxxxxxxxxxxxxxxxxxxxxxxxxxxxxxxxxxxxxxxxxxxxxxxxxxxxxxxxxxxxxxxxxxxxxxxxxxxxxxxxxxxxxxxxxxxxxxxxxxxxxxxxxxxxxxxxxxxxxxxxxxxxxxxxxxxxxxxxxxxxxxxxxxxxxxxxxxxxxxxxxxxxxxx"
Line201 ==
    "yyyyyyyyyyyyyyyyyyyyyyyyyyyyyyyyyyyyyyyyyyyyyyyyyyyyyyyyyyyyyyyyyyyyyyyyyyyyyyyyyyyyyyyyyyyyyyyyyyyyyyyyyyyyyyyyyyyyyyyyyyyyyyyyyyyyyyyyyyyyyyyyyyyyyyyyyyyyyyyyyyyyyyyyyyyyyyyyyyyyyyyyyyyyyyyyyyyyyyyyy"
SumTexts == {"hello", "bye ", " ", Line200, Line201}

\* the longest line _local_summarize keeps, and the most bullets it returns
MaxLineLen == 200
MaxBullets == 12

\* the three characters and the blank the source puts before every bullet
BulletPrefix == "<bullet> "

NoTranscriptText == "No transcript available to summarize."

\* str.strip() on the texts of SumTexts
Strip(t) ==
    CASE t = " " -> ""
      [] t = "bye " -> "bye"
      [] OTHER -> t

\* "\n".join(seq)
RECURSIVE JoinLines(_)
JoinLines(seq) ==
    IF seq = <<>> THEN ""
    ELSE IF Len(seq) = 1 THEN seq[1]
    ELSE seq[1] \o "\n" \o JoinLines(Tail(seq))

\* the loop of summarize over msgs: the texts that are not empty
\* ("m.get('transcript') or m.get('text')"; no stored message has a speaker)
RECURSIVE TranscriptTexts(_)
TranscriptTexts(msgs) ==
    IF msgs = <<>> THEN <<>>
    ELSE IF Head(msgs).transcript = "" THEN TranscriptTexts(Tail(msgs))
    ELSE <<Head(msgs).transcript>> \o TranscriptTexts(Tail(msgs))

\* [l.strip() for l in transcript.split("\n") if l.strip()], on the joined
\* texts: one line per text, as no text holds a line break
RECURSIVE StrippedLines(_)
StrippedLines(texts) ==
    IF texts = <<>> THEN <<>>
    ELSE IF Strip(Head(texts)) = "" THEN StrippedLines(Tail(texts))
    ELSE <<Strip(Head(texts))>> \o StrippedLines(Tail(texts))

\* the loop of _local_summarize: a line of at most MaxLineLen characters is
\* kept, and the loop breaks once MaxBullets are held
RECURSIVE Bullets(_, _)
Bullets(lines, bullets) ==
    IF lines = <<>> THEN bullets
    ELSE LET kept == IF Len(Head(lines)) <= MaxLineLen
                     THEN Append(bullets, Head(lines)) ELSE bullets
         IN IF Len(kept) >= MaxBullets THEN kept
            ELSE Bullets(Tail(lines), kept)

\* _local_summarize(transcript)
LocalSummarize(texts) ==
    LET bullets == Bullets(StrippedLines(texts), <<>>)
    IN IF bullets = <<>> THEN NoTranscriptText
       ELSE JoinLines([i \in 1..Len(bullets) |-> BulletPrefix \o bullets[i]])

\* mutant: the external summarizer is asked whatever the transcript holds
BlankTranscript_Never(texts) == FALSE

\* "not transcript.strip()": the joined texts hold whitespace only
BlankTranscript(texts) == StrippedLines(texts) = <<>>

\* What one POST to the external summarizer ends in, by the features the
\* code reads:
\*   raised       session.post raises (no response head arrives)
\*   status       the HTTP status of the response head
\*   body_raises  reading the body raises: resp.text() for a status other
\*                than 200, resp.json() or the walk through the candidates
\*                for a status of 200
\*   candidates   the number of candidates in the body
\*   text         the joined, stripped text of the parts of the first candidate
GeminiReplies ==
    {[raised |-> TRUE, status |-> 0, body_raises |-> FALSE, candidates |-> 0,
      text |-> ""],
     [raised |-> FALSE, status |-> 500, body_raises |-> FALSE, candidates |-> 0,
      text |-> ""],
     [raised |-> FALSE, status |-> 500, body_raises |-> TRUE, candidates |-> 0,
      text |-> ""],
     [raised |-> FALSE, status |-> 200, body_raises |-> TRUE, candidates |-> 0,
      text |-> ""],
     [raised |-> FALSE, status |-> 200, body_raises |-> FALSE, candidates |-> 0,
      text |-> ""],
     [raised |-> FALSE, status |-> 200, body_raises |-> FALSE, candidates |-> 1,
      text |-> ""],
     [raised |-> FALSE, status |-> 200, body_raises |-> FALSE, candidates |-> 1,
      text |-> "summary"]}

\* no response head has arrived
NoReply ==
    [raised |-> FALSE, status |-> 0, body_raises |-> FALSE, candidates |-> 0,
     text |-> ""]

\* base_urls
BaseUrls == <<"v1", "v1beta">>

NoResponse == [summary |-> "", source |-> "none"]
Response(summary, source) == [summary |-> summary, source |-> source]

\* type(e)._name_ in the two handlers of _gemini_summarize raises
\* AttributeError, as in deepgram_receiver
GeminiNameLookupRaises == TRUE

(* ------------------------------ helpers -------------------------------- *)
\* no dg_ws.send is in flight (a send in flight names its connection, 1 or
\* more, and may carry no bytes)
NoAudio == <<0, "">>

\* dg_ws and not dg_ws.closed
DgLive(h, conns) == h # 0 /\ conns[h] = "open"

\* dg_ws and dg_ws.closed
DgClosed(h, conns) == h # 0 /\ conns[h] # "open"

\* dg_ws is None or dg_ws.closed
NeedsConnect(h, conns) == h = 0 \/ conns[h] # "open"

\* mutant: the loop reconnects on every pass, whatever the flag and the handle
RecvLoopTop_Reconnects(stop, h, conns) == "connecting"

\* the head of deepgram_receiver's loop: "while not stop_flag", then the
\* choice between connecting and iterating the connection
RecvLoopTop(stop, h, conns) ==
    IF stop THEN "done"
    ELSE IF NeedsConnect(h, conns) THEN "connecting" ELSE "iter"

\* the head of client_audio_sender's loop: "while not stop_flag"
SendLoopTop(stop) == IF stop THEN "done" ELSE "recv"

\* mutant: the finally clause does not sleep
AfterFinally_NoSleep(h, conns, sleepPc, nextPc) == nextPc

\* the finally clause of deepgram_receiver: sleep(1) if dg_ws is closed
AfterFinally(h, conns, sleepPc, nextPc) ==
    IF DgClosed(h, conns) THEN sleepPc ELSE nextPc

\* type(e)._name_ in the handler of deepgram_receiver: an exception class has
\* the attribute __name__ and none called _name_, so the lookup raises
\* AttributeError inside the handler
TypeNameLookupRaises == TRUE

\* websocket.send_json(ev) is called by "by"
CallSend(log, by, ev) == Append(log, [ev |-> ev, by |-> by, st |-> "inflight"])

\* the send_json call of "by" that is in flight ends with outcome st
EndSend(log, by, st) ==
    [i \in DOMAIN log |->
        IF log[i].by = by /\ log[i].st = "inflight"
        THEN [log[i] EXCEPT !.st = st] ELSE log[i]]

\* what a send_json call can end in: it returns while the client is there;
\* once the peer is gone it raises, WebSocketDisconnect or, where the ASGI
\* server's error is passed on unchanged, another exception
SendOutcomes(cl) == IF cl = "open" THEN {"ok"} ELSE {"disconnect", "error"}

\* the outcome as the log records it
Delivered(o) == IF o = "ok" THEN "ok" ELSE "failed"

RecvFinished(pc) == pc \in {"done", "crashed"}
SendFinished(pc) == pc \in {"done", "crashed"}

\* task.cancel() of the pump at pc: the CancelledError is thrown into the
\* coroutine at its next step
CancelRecv(pc) ==
    IF RecvFinished(pc) THEN pc
    ELSE IF pc \in {"sleep_loop", "sleep_raise"} THEN "cancelling_fin"
    ELSE "cancelling"

CancelSend(pc) == IF SendFinished(pc) THEN pc ELSE "cancelling"

\* mutant: the cleanup closes the client connection only
CleanupStart_SkipsUpstream(h, conns) == "closing_ws"

\* the cleanup: dg_ws.close() is called if the handle is live, and
\* websocket.close() after it
CleanupStart(h, conns) ==
    IF DgLive(h, conns) THEN "closing_dg" ELSE "closing_ws"

(* ------------------------------ initial state -------------------------- *)
\* no summarize request has been made
SumIdle ==
    /\ sumPc = "idle"
    /\ resp = NoReply
    /\ sumReq = "none"
    /\ transcript_texts = <<>>
    /\ last_error = "none"
    /\ gemPosts = <<>>
    /\ sumResp = NoResponse

\* the state before any client has connected; the path parameters of the
\* relay sessions are drawn from ids
InitWith(ids, n) ==
    /\ cred \in BOOLEAN
    /\ SESSIONS = [s \in SessionIds |-> [present |-> FALSE, messages |-> <<>>]]
    /\ session_id \in ids
    /\ mainPc = [c \in Conns |-> "idle"]
    /\ recvPc = [c \in Conns |-> "none"]
    /\ sendPc = [c \in Conns |-> "none"]
    /\ dg_ws = [c \in Conns |-> 0]
    /\ dgConns = [c \in Conns |-> <<>>]
    /\ stop_flag = [c \in Conns |-> FALSE]
    /\ client = [c \in Conns |-> "none"]
    /\ sendLog = [c \in Conns |-> <<>>]
    /\ raw_msg = [c \in Conns |-> NoPayload]
    /\ recvExc = [c \in Conns |-> "none"]
    /\ audioOut = [c \in Conns |-> <<>>]
    /\ pendingAudio = [c \in Conns |-> NoAudio]
    /\ appendLog = [s \in SessionIds |-> <<>>]
    /\ closeCalls = [c \in Conns |-> <<>>]
    /\ inputsLeft = n
    /\ frameLog = [c \in Conns |-> <<>>]
    /\ gemKey = FALSE
    /\ SumIdle

Init == InitWith({[c \in Conns |-> "s1"]}, MaxInputs)

\* two relay sessions, with the same session id or with different ones
InitShared ==
    InitWith({[c \in Conns |-> "s1"],
              [c \in Conns |-> IF c = "c1" THEN "s1" ELSE "s2"]},
             MaxSharedInputs)

(* ------------------------- websocket_transcribe ------------------------ *)
\* mutant: the key is not tested, every session goes on to connect
Accept_SkipsKeyCheck(c) ==
    /\ mainPc[c] = "idle"
    /\ client' = [client EXCEPT ![c] = "open"]
    /\ SESSIONS' = SetDefault(SESSIONS, session_id[c])
    /\ sendLog' = [sendLog EXCEPT ![c] =
           CallSend(@, "main", StatusEvent("connecting_deepgram"))]
    /\ mainPc' = [mainPc EXCEPT ![c] = "send_connecting"]
    /\ UNCHANGED <<sumVars, frameLog>>
    /\ UNCHANGED <<cred, session_id, recvPc, sendPc, dg_ws, dgConns, stop_flag,
                   raw_msg, recvExc, audioOut, pendingAudio, appendLog,
                   closeCalls, inputsLeft>>

\* websocket.accept() returns; without a key the error is sent, with one the
\* session is registered and the connecting status is sent
Accept(c) ==
    /\ mainPc[c] = "idle"
    /\ client' = [client EXCEPT ![c] = "open"]
    /\ IF cred
       THEN /\ SESSIONS' = SetDefault(SESSIONS, session_id[c])
            /\ sendLog' = [sendLog EXCEPT ![c] =
                   CallSend(@, "main", StatusEvent("connecting_deepgram"))]
            /\ mainPc' = [mainPc EXCEPT ![c] = "send_connecting"]
       ELSE /\ SESSIONS' = SESSIONS
            /\ sendLog' = [sendLog EXCEPT ![c] =
                   CallSend(@, "main", ErrorEvent("Missing DEEPGRAM_API_KEY"))]
            /\ mainPc' = [mainPc EXCEPT ![c] = "nokey_send"]
    /\ UNCHANGED <<sumVars, frameLog>>
    /\ UNCHANGED <<cred, session_id, recvPc, sendPc, dg_ws, dgConns, stop_flag,
                   raw_msg, recvExc, audioOut, pendingAudio, appendLog,
                   closeCalls, inputsLeft>>

\* the send_json of websocket_transcribe returns or raises; after the error
\* event websocket.close() is called; after the status the two tasks are
\* created and websocket_transcribe suspends in asyncio.wait, before either
\* pump has run
MainSendDone(c) ==
    /\ mainPc[c] \in {"nokey_send", "send_connecting"}
    /\ \E o \in SendOutcomes(client[c]) :
        /\ sendLog' = [sendLog EXCEPT ![c] = EndSend(@, "main", Delivered(o))]
        /\ IF o # "ok"
           THEN /\ mainPc' = [mainPc EXCEPT ![c] = "raised"]
                /\ UNCHANGED <<recvPc, sendPc>>
           ELSE IF mainPc[c] = "nokey_send"
           THEN /\ mainPc' = [mainPc EXCEPT ![c] = "nokey_close"]
                /\ UNCHANGED <<recvPc, sendPc>>
           ELSE /\ mainPc' = [mainPc EXCEPT ![c] = "waiting"]
                /\ recvPc' = [recvPc EXCEPT ![c] = "notstarted"]
                /\ sendPc' = [sendPc EXCEPT ![c] = "notstarted"]
    /\ UNCHANGED <<sumVars, frameLog>>
    /\ UNCHANGED <<cred, SESSIONS, session_id, dg_ws, dgConns, stop_flag, client,
                   raw_msg, recvExc, audioOut, pendingAudio, appendLog,
                   closeCalls, inputsLeft>>

\* websocket.close() of the path without a key returns; it can raise only
\* when the peer is gone, and nothing catches it there
NoKeyCloseDone(c) ==
    /\ mainPc[c] = "nokey_close"
    /\ \E raised \in (IF client[c] = "open" THEN {FALSE} ELSE BOOLEAN) :
        /\ closeCalls' = [closeCalls EXCEPT ![c] =
               Append(@, [what |-> "ws", raised |-> raised])]
        /\ mainPc' = [mainPc EXCEPT ![c] = IF raised THEN "raised" ELSE "done"]
    /\ client' = [client EXCEPT ![c] = IF @ = "open" THEN "closed" ELSE @]
    /\ UNCHANGED <<sumVars, frameLog>>
    /\ UNCHANGED <<cred, SESSIONS, session_id, recvPc, sendPc, dg_ws, dgConns,
                   stop_flag, sendLog, raw_msg, recvExc, audioOut, pendingAudio,
                   appendLog, inputsLeft>>

\* asyncio.wait returns because a pump has finished: the pending pump is
\* cancelled, stop_flag is set, and the first close of the cleanup is called
MainWake(c) ==
    /\ mainPc[c] = "waiting"
    /\ RecvFinished(recvPc[c]) \/ SendFinished(sendPc[c])
    /\ recvPc' = [recvPc EXCEPT ![c] = CancelRecv(@)]
    /\ sendPc' = [sendPc EXCEPT ![c] = CancelSend(@)]
    /\ sendLog' = [sendLog EXCEPT ![c] =
           [i \in DOMAIN @ |->
               IF @[i].st = "inflight" THEN [@[i] EXCEPT !.st = "cancelled"]
               ELSE @[i]]]
    /\ stop_flag' = [stop_flag EXCEPT ![c] = TRUE]
    /\ mainPc' = [mainPc EXCEPT ![c] = CleanupStart(dg_ws[c], dgConns[c])]
    /\ UNCHANGED <<sumVars, frameLog>>
    /\ UNCHANGED <<cred, SESSIONS, session_id, dg_ws, dgConns, client, raw_msg,
                   recvExc, audioOut, pendingAudio, appendLog, closeCalls, inputsLeft>>

\* dg_ws.close() returns or raises (swallowed); either way the transport is
\* torn down, and websocket.close() is called next
CloseDgDone(c) ==
    /\ mainPc[c] = "closing_dg"
    /\ \E raised \in (IF DgLive(dg_ws[c], dgConns[c]) THEN {FALSE} ELSE BOOLEAN) :
        closeCalls' = [closeCalls EXCEPT ![c] =
            Append(@, [what |-> "dg", raised |-> raised])]
    /\ dgConns' = [dgConns EXCEPT ![c][dg_ws[c]] =
           IF @ = "open" THEN "closed_ok" ELSE @]
    /\ mainPc' = [mainPc EXCEPT ![c] = "closing_ws"]
    /\ UNCHANGED <<sumVars, frameLog>>
    /\ UNCHANGED <<cred, SESSIONS, session_id, recvPc, sendPc, dg_ws, stop_flag,
                   client, sendLog, raw_msg, recvExc, audioOut, pendingAudio,
                   appendLog, inputsLeft>>

\* websocket.close() of the cleanup returns or raises (swallowed)
CloseWsDone(c) ==
    /\ mainPc[c] = "closing_ws"
    /\ \E raised \in (IF client[c] = "open" THEN {FALSE} ELSE BOOLEAN) :
        closeCalls' = [closeCalls EXCEPT ![c] =
            Append(@, [what |-> "ws", raised |-> raised])]
    /\ client' = [client EXCEPT ![c] = IF @ = "open" THEN "closed" ELSE @]
    /\ mainPc' = [mainPc EXCEPT ![c] = "done"]
    /\ UNCHANGED <<sumVars, frameLog>>
    /\ UNCHANGED <<cred, SESSIONS, session_id, recvPc, sendPc, dg_ws, dgConns,
                   stop_flag, sendLog, raw_msg, recvExc, audioOut, pendingAudio,
                   appendLog, inputsLeft>>


(* --------------------------- deepgram_receiver -------------------------- *)
\* the task of deepgram_receiver runs for the first time, up to its first
\* await
RecvStart(c) ==
    /\ recvPc[c] = "notstarted"
    /\ recvPc' = [recvPc EXCEPT ![c] =
           RecvLoopTop(stop_flag[c], dg_ws[c], dgConns[c])]
    /\ UNCHANGED <<sumVars, frameLog>>
    /\ UNCHANGED <<cred, SESSIONS, session_id, mainPc, sendPc, dg_ws, dgConns,
                   stop_flag, client, sendLog, raw_msg, recvExc, audioOut,
                   pendingAudio, appendLog, closeCalls, inputsLeft>>

\* An exception exc leaves the try block of deepgram_receiver at a point where
\* the handle is h.  WebSocketDisconnect sets stop_flag, and after the finally
\* clause the loop head is evaluated.  Any other exception enters "except
\* Exception", whose first statement raises AttributeError
\* (TypeNameLookupRaises): the error event and the backoff that follow it are
\* never reached, the finally clause runs and the coroutine ends with the
\* AttributeError.
RecvRaise(c, exc, conns) ==
    IF exc = "WebSocketDisconnect"
    THEN /\ stop_flag' = [stop_flag EXCEPT ![c] = TRUE]
         /\ recvExc' = recvExc
         /\ recvPc' = [recvPc EXCEPT ![c] =
                AfterFinally(dg_ws[c], conns, "sleep_loop",
                             RecvLoopTop(TRUE, dg_ws[c], conns))]
    ELSE /\ TypeNameLookupRaises
         /\ stop_flag' = stop_flag
         /\ recvExc' = [recvExc EXCEPT ![c] = exc]
         /\ recvPc' = [recvPc EXCEPT ![c] =
                AfterFinally(dg_ws[c], conns, "sleep_raise", "crashed")]

\* mutant: the connection becomes dg_ws and is iterated at once, the
\* connected status is not sent
ConnectOk_NoStatus(c) ==
    /\ recvPc[c] = "connecting"
    /\ sendPc[c] # "notstarted"
    /\ cred
    /\ Len(dgConns[c]) < MaxUpstream
    /\ dgConns' = [dgConns EXCEPT ![c] = Append(@, "open")]
    /\ dg_ws' = [dg_ws EXCEPT ![c] = Len(dgConns[c]) + 1]
    /\ sendLog' = sendLog
    /\ recvPc' = [recvPc EXCEPT ![c] = "iter"]
    /\ UNCHANGED <<sumVars, frameLog>>
    /\ UNCHANGED <<cred, SESSIONS, session_id, mainPc, sendPc, stop_flag, client,
                   raw_msg, recvExc, audioOut, pendingAudio, appendLog,
                   closeCalls, inputsLeft>>

\* connect_deepgram() returns a connection (it raises without a key): the
\* connection becomes dg_ws and the connected status is sent.  The connect
\* needs the network, so it ends after the sender task, which was ready to
\* run when the connect was called, has taken its first step.
ConnectOk(c) ==
    /\ recvPc[c] = "connecting"
    /\ sendPc[c] # "notstarted"
    /\ cred
    /\ Len(dgConns[c]) < MaxUpstream
    /\ dgConns' = [dgConns EXCEPT ![c] = Append(@, "open")]
    /\ dg_ws' = [dg_ws EXCEPT ![c] = Len(dgConns[c]) + 1]
    /\ sendLog' = [sendLog EXCEPT ![c] =
           CallSend(@, "recv", StatusEvent("deepgram_connected"))]
    /\ recvPc' = [recvPc EXCEPT ![c] = "send_connected"]
    /\ UNCHANGED <<sumVars, frameLog>>
    /\ UNCHANGED <<cred, SESSIONS, session_id, mainPc, sendPc, stop_flag, client,
                   raw_msg, recvExc, audioOut, pendingAudio, appendLog,
                   closeCalls, inputsLeft>>

\* connect_deepgram() raises (network or handshake failure)
ConnectFail(c) ==
    /\ recvPc[c] = "connecting"
    /\ sendPc[c] # "notstarted"
    /\ RecvRaise(c, "ConnectError", dgConns[c])
    /\ UNCHANGED <<sumVars, frameLog>>
    /\ UNCHANGED <<cred, SESSIONS, session_id, mainPc, sendPc, dg_ws, dgConns,
                   client, sendLog, raw_msg, audioOut, pendingAudio, appendLog,
                   closeCalls, inputsLeft>>

\* a send_json of deepgram_receiver returns or raises
RecvSendDone(c) ==
    /\ recvPc[c] \in {"send_connected", "send_msg"}
    /\ \E o \in SendOutcomes(client[c]) :
        /\ sendLog' = [sendLog EXCEPT ![c] = EndSend(@, "recv", Delivered(o))]
        /\ IF o = "ok"
           THEN /\ recvPc' = [recvPc EXCEPT ![c] = "iter"]
                /\ UNCHANGED <<stop_flag, recvExc>>
           ELSE RecvRaise(c, IF o = "disconnect" THEN "WebSocketDisconnect"
                                ELSE "ClientSendError", dgConns[c])
    /\ UNCHANGED <<sumVars, frameLog>>
    /\ UNCHANGED <<cred, SESSIONS, session_id, mainPc, sendPc, dg_ws, dgConns,
                   client, raw_msg, audioOut, pendingAudio, appendLog,
                   closeCalls, inputsLeft>>

\* "async for raw_msg in dg_ws" yields the payload p, and the loop body runs
DgDeliver(c, p) ==
    /\ recvPc[c] = "iter"
    /\ DgLive(dg_ws[c], dgConns[c])
    /\ inputsLeft > 0
    /\ inputsLeft' = inputsLeft - 1
    /\ raw_msg' = [raw_msg EXCEPT ![c] = p]
    /\ IF JsonLoadsFails(p)
       THEN UNCHANGED <<SESSIONS, appendLog, sendLog, recvPc, stop_flag, recvExc>>
       ELSE IF AltRaises(p)
       THEN /\ RecvRaise(c, "DecodeError", dgConns[c])
            /\ UNCHANGED <<SESSIONS, appendLog, sendLog>>
       ELSE IF HasTranscript(p)
       THEN /\ SESSIONS' = StoreAppend(SESSIONS, session_id[c], MsgObj(p))
            /\ appendLog' = [appendLog EXCEPT ![session_id[c]] =
                   Append(@, <<c, MsgObj(p)>>)]
            /\ sendLog' = [sendLog EXCEPT ![c] =
                   CallSend(@, "recv", TranscriptEvent(MsgObj(p)))]
            /\ recvPc' = [recvPc EXCEPT ![c] = "send_msg"]
            /\ UNCHANGED <<stop_flag, recvExc>>
       ELSE UNCHANGED <<SESSIONS, appendLog, sendLog, recvPc, stop_flag, recvExc>>
    /\ UNCHANGED <<sumVars, frameLog>>
    /\ UNCHANGED <<cred, session_id, mainPc, sendPc, dg_ws, dgConns, client,
                   audioOut, pendingAudio, closeCalls>>

\* the iteration of a closed connection ends: normally after a clean close
\* (the finally clause then sleeps), with ConnectionClosedError otherwise
DgIterEnd(c) ==
    /\ recvPc[c] = "iter"
    /\ DgClosed(dg_ws[c], dgConns[c])
    /\ IF dgConns[c][dg_ws[c]] = "closed_ok"
       THEN /\ recvPc' = [recvPc EXCEPT ![c] =
                   AfterFinally(dg_ws[c], dgConns[c], "sleep_loop",
                                RecvLoopTop(stop_flag[c], dg_ws[c], dgConns[c]))]
            /\ UNCHANGED <<stop_flag, recvExc>>
       ELSE RecvRaise(c, "ConnectionClosedError", dgConns[c])
    /\ UNCHANGED <<sumVars, frameLog>>
    /\ UNCHANGED <<cred, SESSIONS, session_id, mainPc, sendPc, dg_ws, dgConns,
                   client, sendLog, raw_msg, audioOut, pendingAudio, appendLog,
                   closeCalls, inputsLeft>>

\* the sleep(1) of the finally clause returns
RecvSleepDone(c) ==
    /\ recvPc[c] \in {"sleep_loop", "sleep_raise", "sleep_cancel"}
    /\ recvPc' = [recvPc EXCEPT ![c] =
           IF @ = "sleep_loop"
           THEN RecvLoopTop(stop_flag[c], dg_ws[c], dgConns[c])
           ELSE IF @ = "sleep_raise" THEN "crashed" ELSE "cancelled"]
    /\ UNCHANGED <<sumVars, frameLog>>
    /\ UNCHANGED <<cred, SESSIONS, session_id, mainPc, sendPc, dg_ws, dgConns,
                   stop_flag, client, sendLog, raw_msg, recvExc, audioOut,
                   pendingAudio, appendLog, closeCalls, inputsLeft>>

\* the CancelledError reaches deepgram_receiver: no except clause catches it,
\* the finally clause runs (unless the coroutine was inside it)
RecvCancelled(c) ==
    /\ recvPc[c] \in {"cancelling", "cancelling_fin"}
    /\ recvPc' = [recvPc EXCEPT ![c] =
           IF @ = "cancelling_fin" THEN "cancelled"
           ELSE AfterFinally(dg_ws[c], dgConns[c], "sleep_cancel", "cancelled")]
    /\ UNCHANGED <<sumVars, frameLog>>
    /\ UNCHANGED <<cred, SESSIONS, session_id, mainPc, sendPc, dg_ws, dgConns,
                   stop_flag, client, sendLog, raw_msg, recvExc, audioOut,
                   pendingAudio, appendLog, closeCalls, inputsLeft>>

(* -------------------------- client_audio_sender ------------------------- *)
\* the task of client_audio_sender runs for the first time, up to its first
\* await; the loop runs the tasks in the order they were created in
SendStart(c) ==
    /\ sendPc[c] = "notstarted"
    /\ recvPc[c] # "notstarted"
    /\ sendPc' = [sendPc EXCEPT ![c] = SendLoopTop(stop_flag[c])]
    /\ UNCHANGED <<sumVars, frameLog>>
    /\ UNCHANGED <<cred, SESSIONS, session_id, mainPc, recvPc, dg_ws, dgConns,
                   stop_flag, client, sendLog, raw_msg, recvExc, audioOut,
                   pendingAudio, appendLog, closeCalls, inputsLeft>>

\* the frame asks to forward audio: "if data_bytes" for a binary frame; for a
\* text frame "b64_audio" is not empty and base64.b64decode returns
FrameHasAudio(f) == f.bytes # "" \/ f.text \in {"b64", "b64junk"}

\* mutant: the text of a text frame is forwarded as it came, not decoded
FrameAudio_Undecoded(f) == IF f.bytes # "" THEN f.bytes ELSE f.text

\* the bytes passed to dg_ws.send: the payload of a binary frame, what
\* base64.b64decode returned for a text frame (possibly no bytes at all)
FrameAudio(f) == IF f.bytes # "" THEN f.bytes ELSE f.pcm

\* websocket.receive() returns the frame f
ClientFrame(c, f) ==
    /\ sendPc[c] = "recv"
    /\ client[c] = "open"
    /\ inputsLeft > 0
    /\ inputsLeft' = inputsLeft - 1
    /\ IF FrameHasAudio(f) /\ DgLive(dg_ws[c], dgConns[c])
       THEN /\ pendingAudio' = [pendingAudio EXCEPT ![c] = <<dg_ws[c], FrameAudio(f)>>]
            /\ sendPc' = [sendPc EXCEPT ![c] =
                   IF f.bytes # "" THEN "dg_send_bin" ELSE "dg_send_txt"]
       ELSE /\ pendingAudio' = pendingAudio
            /\ sendPc' = [sendPc EXCEPT ![c] = SendLoopTop(stop_flag[c])]
    /\ frameLog' = [frameLog EXCEPT ![c] =
           IF f.bytes # "" \/ f.text \in {"b64", "b64junk"}
           THEN Append(@, [frame |-> f,
                           live |-> IF DgLive(dg_ws[c], dgConns[c])
                                    THEN dg_ws[c] ELSE 0])
           ELSE @]
    /\ UNCHANGED sumVars
    /\ UNCHANGED <<cred, SESSIONS, session_id, mainPc, recvPc, dg_ws, dgConns,
                   stop_flag, client, sendLog, raw_msg, recvExc, audioOut,
                   appendLog, closeCalls>>

\* websocket.receive() returns the disconnect message, or raises
ClientDisconnect(c) ==
    /\ sendPc[c] = "recv"
    /\ client[c] = "gone"
    /\ stop_flag' = [stop_flag EXCEPT ![c] = TRUE]
    /\ sendPc' = [sendPc EXCEPT ![c] = "done"]
    /\ UNCHANGED <<sumVars, frameLog>>
    /\ UNCHANGED <<cred, SESSIONS, session_id, mainPc, recvPc, dg_ws, dgConns,
                   client, sendLog, raw_msg, recvExc, audioOut, pendingAudio,
                   appendLog, closeCalls, inputsLeft>>

\* mutant: the handler around the send of a binary frame passes as well
ReportsSendError_Never(pc) == FALSE

\* the handler around dg_ws.send: "except Exception as e" with a send_json of
\* the error for a binary frame, "except Exception: pass" for a text frame
ReportsSendError(pc) == pc = "dg_send_bin"

\* dg_ws.send returns, or raises because the connection it was called on has
\* closed: a binary frame then reports the error to the client, a text frame
\* swallows it
DgSendDone(c) ==
    /\ sendPc[c] \in {"dg_send_bin", "dg_send_txt"}
    /\ IF dgConns[c][pendingAudio[c][1]] = "open"
       THEN /\ audioOut' = [audioOut EXCEPT ![c] = Append(@, pendingAudio[c])]
            /\ sendPc' = [sendPc EXCEPT ![c] = SendLoopTop(stop_flag[c])]
            /\ sendLog' = sendLog
       ELSE IF ReportsSendError(sendPc[c])
       THEN /\ sendLog' = [sendLog EXCEPT ![c] =
                   CallSend(@, "send", ErrorEvent("deepgram_send_error"))]
            /\ sendPc' = [sendPc EXCEPT ![c] = "send_err"]
            /\ audioOut' = audioOut
       ELSE /\ sendPc' = [sendPc EXCEPT ![c] = SendLoopTop(stop_flag[c])]
            /\ UNCHANGED <<sendLog, audioOut>>
    /\ pendingAudio' = [pendingAudio EXCEPT ![c] = NoAudio]
    /\ UNCHANGED <<sumVars, frameLog>>
    /\ UNCHANGED <<cred, SESSIONS, session_id, mainPc, recvPc, dg_ws, dgConns,
                   stop_flag, client, raw_msg, recvExc, appendLog,
                   closeCalls, inputsLeft>>

\* the send_json of the send error returns, or raises out of the coroutine
SendErrDone(c) ==
    /\ sendPc[c] = "send_err"
    /\ \E o \in SendOutcomes(client[c]) :
        /\ sendLog' = [sendLog EXCEPT ![c] = EndSend(@, "send", Delivered(o))]
        /\ sendPc' = [sendPc EXCEPT ![c] =
               IF o = "ok" THEN SendLoopTop(stop_flag[c])
               ELSE "crashed"]
    /\ UNCHANGED <<sumVars, frameLog>>
    /\ UNCHANGED <<cred, SESSIONS, session_id, mainPc, recvPc, dg_ws, dgConns,
                   stop_flag, client, raw_msg, recvExc, audioOut, pendingAudio,
                   appendLog, closeCalls, inputsLeft>>

\* the CancelledError reaches client_audio_sender
SendCancelled(c) ==
    /\ sendPc[c] = "cancelling"
    /\ sendPc' = [sendPc EXCEPT ![c] = "cancelled"]
    /\ UNCHANGED <<sumVars, frameLog>>
    /\ UNCHANGED <<cred, SESSIONS, session_id, mainPc, recvPc, dg_ws, dgConns,
                   stop_flag, client, sendLog, raw_msg, recvExc, audioOut,
                   pendingAudio, appendLog, closeCalls, inputsLeft>>

(* ------------------------------ environment ----------------------------- *)
\* the browser goes away
ClientGone(c) ==
    /\ client[c] = "open"
    /\ client' = [client EXCEPT ![c] = "gone"]
    /\ UNCHANGED <<sumVars, frameLog>>
    /\ UNCHANGED <<cred, SESSIONS, session_id, mainPc, recvPc, sendPc, dg_ws,
                   dgConns, stop_flag, sendLog, raw_msg, recvExc, audioOut,
                   pendingAudio, appendLog, closeCalls, inputsLeft>>

\* the upstream service closes the connection, cleanly or not
UpstreamClose(c, clean) ==
    /\ DgLive(dg_ws[c], dgConns[c])
    /\ dgConns' = [dgConns EXCEPT ![c][dg_ws[c]] =
           IF clean THEN "closed_ok" ELSE "closed_err"]
    /\ UNCHANGED <<sumVars, frameLog>>
    /\ UNCHANGED <<cred, SESSIONS, session_id, mainPc, recvPc, sendPc, dg_ws,
                   stop_flag, client, sendLog, raw_msg, recvExc, audioOut,
                   pendingAudio, appendLog, closeCalls, inputsLeft>>

(* ------------------------------- summarize ------------------------------ *)
\* the state of the relay sessions and of the store
relayVars ==
    <<cred, SESSIONS, session_id, mainPc, recvPc, sendPc, dg_ws, dgConns,
      stop_flag, client, sendLog, raw_msg, recvExc, audioOut, pendingAudio,
      appendLog, closeCalls, inputsLeft, frameLog>>

\* "return (await _local_summarize(transcript), 'local')"; pc is where the
\* coroutine is after the return statement
ReturnLocal(texts, pc) ==
    /\ sumResp' = Response(LocalSummarize(texts), "local")
    /\ sumPc' = pc

\* session.post(url, ...) is called for the next base url
PostNext ==
    /\ gemPosts' = Append(gemPosts, BaseUrls[Len(gemPosts) + 1])
    /\ sumPc' = "post"

\* "continue" in the loop over base_urls: the next url is posted to, and
\* after the last one the local summary is returned from inside the client
\* session, which is closed first
NextUrlOrLocal ==
    IF Len(gemPosts) < Len(BaseUrls)
    THEN PostNext /\ sumResp' = sumResp
    ELSE ReturnLocal(transcript_texts, "close_return") /\ gemPosts' = gemPosts

\* An exception inside the loop enters the inner handler, whose print
\* evaluates type(e)._name_ and raises AttributeError; that leaves the loop
\* and the client session, which is closed on the way out.
RaiseInLoop ==
    /\ GeminiNameLookupRaises
    /\ sumPc' = "close_raise"
    /\ UNCHANGED <<last_error, gemPosts, sumResp>>

\* POST /summarize for session s: the texts of the stored messages are
\* collected and _gemini_summarize runs up to its first await.  Without a key
\* the local summary is returned, for a blank transcript the fixed text, and
\* otherwise the first base url is posted to.
Summarize(s) ==
    /\ sumPc = "idle"
    /\ sumReq' = s
    /\ LET texts == TranscriptTexts(ReadAll(SESSIONS, s))
       IN /\ transcript_texts' = texts
          /\ IF ~gemKey
             THEN ReturnLocal(texts, "done") /\ gemPosts' = gemPosts
             ELSE IF BlankTranscript(texts)
             THEN /\ sumResp' = Response(NoTranscriptText, "local")
                  /\ sumPc' = "done"
                  /\ gemPosts' = gemPosts
             ELSE PostNext /\ sumResp' = sumResp
    /\ UNCHANGED <<gemKey, last_error, resp>>
    /\ UNCHANGED relayVars

\* "async with session.post(...) as resp" ends: it raises, or the head of the
\* response r has arrived and the body is read, with resp.text() for a status
\* other than 200 and with resp.json() otherwise
GeminiHead(r) ==
    /\ sumPc = "post"
    /\ IF r.raised
       THEN RaiseInLoop /\ resp' = resp
       ELSE /\ resp' = r
            /\ sumPc' = IF r.status # 200 THEN "read_text" ELSE "read_json"
            /\ UNCHANGED <<last_error, gemPosts, sumResp>>
    /\ UNCHANGED <<gemKey, sumReq, transcript_texts>>
    /\ UNCHANGED relayVars

\* The read of the body ends.  resp.text() that raises is replaced by
\* "<no body>", and the status is the error either way.  resp.json() or the
\* walk through the body that raises is an exception inside the loop.  A
\* body without candidates and an empty text are errors that go on to the
\* next base url; anything else is returned with source "gemini".
GeminiBody ==
    /\ sumPc \in {"read_text", "read_json"}
    /\ IF sumPc = "read_text"
       THEN /\ last_error' = "status"
            /\ NextUrlOrLocal
       ELSE IF resp.body_raises
       THEN RaiseInLoop
       ELSE IF resp.candidates = 0 \/ resp.text = ""
       THEN /\ last_error' = IF resp.candidates = 0 THEN "no candidates"
                             ELSE "empty parts"
            /\ NextUrlOrLocal
       ELSE /\ sumResp' = Response(resp.text, "gemini")
            /\ sumPc' = "close_return"
            /\ UNCHANGED <<last_error, gemPosts>>
    /\ UNCHANGED <<gemKey, resp, sumReq, transcript_texts>>
    /\ UNCHANGED relayVars

\* The client session has been closed.  A return statement completes and
\* summarize returns the response.  The AttributeError enters the outer
\* handler, whose print raises AttributeError again: _gemini_summarize and
\* summarize end with the exception.
GeminiSessionClosed ==
    /\ sumPc \in {"close_return", "close_raise"}
    /\ sumPc' = IF sumPc = "close_return" THEN "done" ELSE "raised"
    /\ sumPc = "close_raise" => GeminiNameLookupRaises
    /\ UNCHANGED <<gemKey, resp, sumReq, transcript_texts, last_error, gemPosts,
                   sumResp>>
    /\ UNCHANGED relayVars

(* ------------------------------ specification --------------------------- *)
\* One relay session with its whole environment: the client may leave, the
\* upstream may fail to connect, close cleanly or break, and deliver any
\* payload.
Next ==
    \E c \in {"c1"} :
        \/ Accept(c)
        \/ MainSendDone(c)
        \/ NoKeyCloseDone(c)
        \/ MainWake(c)
        \/ CloseDgDone(c)
        \/ CloseWsDone(c)
        \/ RecvStart(c)
        \/ SendStart(c)
        \/ ConnectOk(c)
        \/ ConnectFail(c)
        \/ RecvSendDone(c)
        \/ \E p \in Payloads : DgDeliver(c, p)
        \/ DgIterEnd(c)
        \/ RecvSleepDone(c)
        \/ RecvCancelled(c)
        \/ \E f \in Frames : ClientFrame(c, f)
        \/ ClientDisconnect(c)
        \/ DgSendDone(c)
        \/ SendErrDone(c)
        \/ SendCancelled(c)
        \/ ClientGone(c)
        \/ \E clean \in BOOLEAN : UpstreamClose(c, clean)

Spec == Init /\ [][Next]_vars

\* Two relay sessions running concurrently on the one event loop and sharing
\* the store; their upstream connections stay up and deliver events with
\* word timings, the clients send no audio and may leave at any time.
NextShared ==
    \E c \in Conns :
        \/ Accept(c)
        \/ MainSendDone(c)
        \/ NoKeyCloseDone(c)
        \/ MainWake(c)
        \/ CloseDgDone(c)
        \/ CloseWsDone(c)
        \/ RecvStart(c)
        \/ SendStart(c)
        \/ ConnectOk(c)
        \/ RecvSendDone(c)
        \/ \E p \in WordPayloads : DgDeliver(c, p)
        \/ RecvSleepDone(c)
        \/ RecvCancelled(c)
        \/ ClientDisconnect(c)
        \/ SendCancelled(c)
        \/ ClientGone(c)

SharedSpec == InitShared /\ [][NextShared]_vars

\* The event loop runs every coroutine that is ready, and every send_json,
\* close and sleep that was called returns or raises in the end; nothing
\* obliges the client or the upstream to deliver anything.
FairSpec ==
    /\ Spec
    /\ \A c \in Conns :
        /\ WF_vars(MainSendDone(c))
        /\ WF_vars(NoKeyCloseDone(c))
        /\ WF_vars(RecvStart(c))
        /\ WF_vars(SendStart(c))
        /\ WF_vars(MainWake(c))
        /\ WF_vars(CloseDgDone(c))
        /\ WF_vars(CloseWsDone(c))

\* the messages the store can hold: the receiver pump appends a message only
\* when its transcript is not empty
StoredMessages == [transcript : SumTexts, is_final : BOOLEAN]

StoredSeqs == UNION {[1..n -> StoredMessages] : n \in 0..MaxStored}

\* A summarize request on a store that relay sessions have filled before:
\* session s1 is unknown or holds up to MaxStored messages, s2 is unknown or
\* registered and empty.
InitSum ==
    /\ cred = TRUE
    /\ \E seq \in StoredSeqs : \E p1, p2 \in BOOLEAN :
        /\ SESSIONS =
               [s \in SessionIds |->
                   IF s = "s1"
                   THEN [present |-> p1, messages |-> IF p1 THEN seq ELSE <<>>]
                   ELSE [present |-> p2, messages |-> <<>>]]
        /\ appendLog =
               [s \in SessionIds |->
                   IF s = "s1" /\ p1
                   THEN [i \in 1..Len(seq) |-> <<"c1", seq[i]>>] ELSE <<>>]
    /\ session_id = [c \in Conns |-> "s1"]
    /\ mainPc = [c \in Conns |-> "idle"]
    /\ recvPc = [c \in Conns |-> "none"]
    /\ sendPc = [c \in Conns |-> "none"]
    /\ dg_ws = [c \in Conns |-> 0]
    /\ dgConns = [c \in Conns |-> <<>>]
    /\ stop_flag = [c \in Conns |-> FALSE]
    /\ client = [c \in Conns |-> "none"]
    /\ sendLog = [c \in Conns |-> <<>>]
    /\ raw_msg = [c \in Conns |-> NoPayload]
    /\ recvExc = [c \in Conns |-> "none"]
    /\ audioOut = [c \in Conns |-> <<>>]
    /\ pendingAudio = [c \in Conns |-> NoAudio]
    /\ closeCalls = [c \in Conns |-> <<>>]
    /\ inputsLeft = 0
    /\ frameLog = [c \in Conns |-> <<>>]
    /\ gemKey \in BOOLEAN
    /\ SumIdle

NextSum ==
    \/ \E s \in SessionIds : Summarize(s)
    \/ \E r \in GeminiReplies : GeminiHead(r)
    \/ GeminiBody
    \/ GeminiSessionClosed

SumSpec == InitSum /\ [][NextSum]_vars

(* =============================== claims ================================= *)
HasErrorEvent(log) == \E i \in DOMAIN log : log[i].ev.kind = "error"

\* C1: with a key configured, when connect_deepgram() fails the relay session
\* sends the client an error event and the receiver pump keeps running to
\* retry: no failed connect ends the pump.
C1_ConnectFailureIsRetried ==
    \A c \in Conns :
        (cred /\ recvExc[c] = "ConnectError") =>
            /\ HasErrorEvent(sendLog[c])
            /\ recvPc[c] \notin {"sleep_raise", "crashed"}

\* C2: when an established upstream connection closes or breaks while the
\* client is connected, the receiver pump survives to re-open the upstream
\* connection, so that the cleanup does not close the client connection.
C2_UpstreamLossKeepsSession ==
    \A c \in Conns :
        (cred /\ \E i \in DOMAIN dgConns[c] : dgConns[c][i] = "closed_err") =>
            ~ (recvExc[c] = "ConnectionClosedError"
               /\ recvPc[c] \in {"sleep_raise", "crashed"})

NoKeyState(c) ==
    /\ Len(sendLog[c]) = 1
    /\ sendLog[c][1].ev = ErrorEvent("Missing DEEPGRAM_API_KEY")
    /\ dgConns[c] = <<>> /\ dg_ws[c] = 0
    /\ recvPc[c] = "none" /\ sendPc[c] = "none"
    /\ mainPc[c] = "done" => (sendLog[c][1].st = "ok" /\ client[c] # "open")
    /\ mainPc[c] = "raised" => client[c] = "gone"

\* C3: without a key every client connection ends (the handler returns, or
\* the client has gone and the failed send or close ends it) after exactly
\* one send_json call, the error event; no pump is started, no upstream
\* connect is attempted, and the client connection is closed.
C3_NoKeyOneErrorThenClosed ==
    /\ [](\A c \in Conns : (~cred /\ mainPc[c] # "idle") => NoKeyState(c))
    /\ \A c \in Conns :
        (~cred /\ mainPc[c] # "idle") ~> (mainPc[c] \in {"done", "raised"})

C3_Witness ==
    /\ ~cred
    /\ mainPc["c1"] = "done"
    /\ client["c1"] = "closed"
    /\ sendLog["c1"] = <<[ev |-> ErrorEvent("Missing DEEPGRAM_API_KEY"),
                          by |-> "main", st |-> "ok"]>>

\* a pump calls send_json, starts to iterate the upstream connection, calls
\* websocket.receive() or calls dg_ws.send in this step
PumpStartsIo(c) ==
    \/ Len(sendLog'[c]) > Len(sendLog[c])
    \/ recvPc'[c] = "iter" /\ recvPc[c] # "iter"
    \/ sendPc'[c] \in {"recv", "dg_send_bin", "dg_send_txt"} /\ sendPc'[c] # sendPc[c]

\* C4: once stop_flag is set, no pump starts a send or a receive on the
\* client connection or on the upstream connection.
C4_NoIoAfterStop ==
    [][\A c \in Conns : stop_flag[c] => ~PumpStartsIo(c)]_vars

PumpStopped(c) ==
    /\ recvPc[c] \in {"done", "crashed", "cancelling", "cancelling_fin",
                      "sleep_cancel", "cancelled"}
    /\ sendPc[c] \in {"done", "crashed", "cancelling", "cancelled"}

Terminated(c) ==
    /\ PumpStopped(c)
    /\ client[c] # "open"
    /\ \A i \in DOMAIN dgConns[c] : dgConns[c][i] # "open"
    /\ closeCalls[c] # <<>>
    /\ closeCalls[c][Len(closeCalls[c])].what = "ws"

\* C5: when a pump has exited, the other pump is cancelled and the session
\* reaches the end of the cleanup with the client connection and every
\* upstream connection closed; a close that raises neither stops the other
\* close nor ends the handler with the exception.
C5_PumpExitTerminates ==
    /\ [](\A c \in Conns : (cred /\ mainPc[c] = "done") => Terminated(c))
    /\ [](\A c \in Conns : recvPc[c] # "none" => mainPc[c] # "raised")
    /\ \A c \in Conns :
        (RecvFinished(recvPc[c]) \/ SendFinished(sendPc[c]))
            ~> (mainPc[c] = "done")

C5_Witness ==
    /\ mainPc["c1"] = "done"
    /\ Len(closeCalls["c1"]) = 2
    /\ closeCalls["c1"][1] = [what |-> "dg", raised |-> TRUE]
    /\ recvPc["c1"] = "crashed"
    /\ sendPc["c1"] = "cancelled"
    /\ client["c1"] = "closed"

LiveUpstream(c) == {i \in DOMAIN dgConns[c] : dgConns[c][i] = "open"}

\* C6: at most one upstream connection a relay session opened is live, and
\* the receiver pump is connecting only while the handle is None or closed.
C6_OneLiveUpstream ==
    \A c \in Conns :
        /\ Cardinality(LiveUpstream(c)) <= 1
        /\ recvPc[c] = "connecting" =>
               (dg_ws[c] = 0 \/ dgConns[c][dg_ws[c]] # "open")

C6_Witness ==
    /\ dgConns["c1"] = <<"closed_ok", "open">>
    /\ dg_ws["c1"] = 2
    /\ recvPc["c1"] = "iter"

\* the messages of a history of appends
Messages(log) == [i \in 1..Len(log) |-> log[i][2]]

\* C7: reading a session returns exactly the messages appended to it, in
\* append order, none dropped, duplicated or changed; reading a session
\* that was never registered returns the empty sequence.
C7_ReadAllIsAppendOrder ==
    \A s \in SessionIds :
        /\ ReadAll(SESSIONS, s) = Messages(appendLog[s])
        /\ (\A c \in Conns : session_id[c] = s => mainPc[c] = "idle")
               => ReadAll(SESSIONS, s) = <<>>

C7_Witness ==
    /\ Len(ReadAll(SESSIONS, "s1")) = 3
    /\ ReadAll(SESSIONS, "s1")[1] # ReadAll(SESSIONS, "s1")[2]
    /\ appendLog["s1"][1][1] # appendLog["s1"][2][1]
    /\ ReadAll(SESSIONS, "s2") = <<>>

\* the messages deepgram_receiver of relay session c passed to send_json
IsTranscriptCall(e) == e.ev.kind = "transcript"
SentTranscripts(c) ==
    LET calls == SelectSeq(sendLog[c], IsTranscriptCall)
    IN [i \in 1..Len(calls) |->
           [transcript |-> calls[i].ev.text, is_final |-> calls[i].ev.is_final]]

\* the stored messages of session s that relay session c appended, among the
\* first n
RECURSIVE OwnStored(_, _, _)
OwnStored(s, c, n) ==
    IF n = 0 THEN <<>>
    ELSE LET rest == OwnStored(s, c, n - 1)
         IN IF appendLog[s][n][1] = c
            THEN Append(rest, ReadAll(SESSIONS, s)[n]) ELSE rest

RECURSIVE SumAppends(_)
SumAppends(cs) ==
    IF cs = {} THEN 0
    ELSE LET c == CHOOSE x \in cs : TRUE
         IN Len(SentTranscripts(c)) + SumAppends(cs \ {c})

\* C8: when relay sessions sharing a session id append concurrently, the
\* number of stored messages is the sum of the appends each of them made,
\* and the messages of each relay session are stored in the order it
\* appended them.
C8_NoLostAppend ==
    \A s \in SessionIds :
        LET sharing == {c \in Conns : session_id[c] = s}
        IN /\ Len(ReadAll(SESSIONS, s)) = SumAppends(sharing)
           /\ Len(appendLog[s]) = Len(ReadAll(SESSIONS, s))
           /\ \A c \in sharing :
                  OwnStored(s, c, Len(appendLog[s])) = SentTranscripts(c)

C8_Witness ==
    /\ session_id["c2"] = "s1"
    /\ Len(appendLog["s1"]) = 3
    /\ appendLog["s1"][1][1] = "c1"
    /\ appendLog["s1"][2][1] = "c2"
    /\ appendLog["s1"][3][1] = "c1"
    /\ ReadAll(SESSIONS, "s1")[1] # ReadAll(SESSIONS, "s1")[3]
    /\ recvPc["c1"] = "send_msg" /\ recvPc["c2"] = "send_msg"

\* the effect the loop body has for a decoded event p
EventEffect(c, p) ==
    IF p.alts = "one" /\ p.transcript # ""
    THEN LET m == [transcript |-> p.transcript,
                   is_final |-> p.words /\ p.is_final]
         IN /\ ReadAll(SESSIONS', session_id[c]) =
                   Append(ReadAll(SESSIONS, session_id[c]), m)
            /\ \A s \in SessionIds \ {session_id[c]} : SESSIONS'[s] = SESSIONS[s]
            /\ sendLog'[c] =
                   Append(sendLog[c],
                          [ev |-> Event("transcript", m.transcript, m.is_final),
                           by |-> "recv", st |-> "inflight"])
            /\ recvPc'[c] = "send_msg"
    ELSE /\ SESSIONS' = SESSIONS
         /\ sendLog' = sendLog
         /\ recvPc'[c] = "iter"

\* C9: for every decoded upstream event the receiver pump appends exactly one
\* message {transcript, is_final} and calls send_json with that message when
\* the transcript text is non-empty, and appends and sends nothing when it
\* is empty.
C9_NonEmptyTranscriptStoredAndSent ==
    [][\A c \in Conns : \A p \in Payloads :
          (DgDeliver(c, p) /\ p.json /\ p.object /\ p.alts # "empty")
              => EventEffect(c, p)]_vars

C9_Witness ==
    /\ raw_msg["c1"].alts = "one" /\ raw_msg["c1"].transcript = ""
    /\ inputsLeft = 0
    /\ ReadAll(SESSIONS, "s1") = <<[transcript |-> "hello", is_final |-> TRUE]>>
    /\ sendLog["c1"][3] =
           [ev |-> Event("transcript", "hello", TRUE), by |-> "recv", st |-> "ok"]
    /\ Len(sendLog["c1"]) = 3
    /\ recvPc["c1"] = "iter"

\* C10: a payload that is not valid JSON appends nothing and sends nothing,
\* and the receiver pump goes on iterating the same upstream connection.
C10_BadJsonIsSkipped ==
    [][\A c \in Conns : \A p \in Payloads :
          (DgDeliver(c, p) /\ ~p.json) =>
              /\ SESSIONS' = SESSIONS
              /\ sendLog' = sendLog
              /\ dg_ws' = dg_ws /\ dgConns' = dgConns
              /\ stop_flag' = stop_flag /\ recvExc' = recvExc
              /\ recvPc'[c] = "iter"]_vars

C10_Witness ==
    /\ raw_msg["c1"] = BadJson
    /\ inputsLeft = 0
    /\ recvPc["c1"] = "iter"
    /\ DgLive(dg_ws["c1"], dgConns["c1"])
    /\ Len(ReadAll(SESSIONS, "s1")) = 1
    /\ recvExc["c1"] = "none"

\* the session the request names is unknown, or none of its messages holds
\* anything but whitespace
NoMessageText(s) ==
    \/ ~SESSIONS[s].present
    \/ \A i \in DOMAIN SESSIONS[s].messages :
           SESSIONS[s].messages[i].transcript \in {"", " "}

\* C11: a summarize request for a session that is unknown or holds no message
\* text returns "No transcript available to summarize." with source "local",
\* with and without a summarizer key, and posts nothing to the external
\* summarizer.
C11_EmptySessionIsLocalNoTranscript ==
    (sumPc # "idle" /\ NoMessageText(sumReq)) =>
        /\ sumPc = "done"
        /\ sumResp = Response("No transcript available to summarize.", "local")
        /\ gemPosts = <<>>

C11_Witness ==
    /\ gemKey
    /\ sumPc = "done"
    /\ sumReq = "s1"
    /\ SESSIONS["s1"].present
    /\ Len(SESSIONS["s1"].messages) = 2
    /\ SESSIONS["s1"].messages[1].transcript = " "
    /\ sumResp.source = "local"

\* C12: with a summarizer key, a request whose POSTs to the external
\* summarizer fail (an exception, a status other than 200, no candidates, an
\* empty text, on both base urls) returns a non-empty summary made by
\* _local_summarize with source "local"; no request ends with an exception.
C12_ExternalFailureFallsBackToLocal ==
    /\ sumPc # "raised"
    /\ (gemKey /\ sumPc = "done" /\ sumResp.source # "gemini") =>
           /\ sumResp = Response(LocalSummarize(transcript_texts), "local")
           /\ sumResp.summary # ""

\* C13: a payload that is valid JSON but of the wrong structure (not an
\* object, or an object whose channel.alternatives is an empty list) is
\* dropped silently: nothing is appended, no send_json is called, and the
\* receiver pump goes on iterating the same upstream connection.
C13_MalformedPayloadIsDropped ==
    [][\A c \in Conns : \A p \in Payloads :
          (DgDeliver(c, p) /\ p.json /\ (~p.object \/ p.alts = "empty")) =>
              /\ SESSIONS' = SESSIONS
              /\ sendLog' = sendLog
              /\ dg_ws' = dg_ws /\ dgConns' = dgConns
              /\ recvPc'[c] = "iter"]_vars

\* the error events deepgram_receiver has passed to send_json
RecvErrorEvents(c) ==
    {i \in DOMAIN sendLog[c] :
        sendLog[c][i].by = "recv" /\ sendLog[c][i].ev.kind = "error"}

\* the upstream connections of the session that have closed
LostUpstream(c) == {i \in DOMAIN dgConns[c] : dgConns[c][i] # "open"}

\* C14 as stated: whenever the receiver pump attempts to open an upstream
\* connection after the previous ones have closed, it has sent the client an
\* error event for each of them.
C14_ErrorEventBeforeReconnect ==
    \A c \in Conns :
        (recvPc[c] = "connecting" /\ ~stop_flag[c]) =>
            Cardinality(RecvErrorEvents(c)) >= Cardinality(LostUpstream(c))

\* C14 amended: when the iteration of a cleanly closed upstream connection
\* ends, the receiver pump calls no send_json and sleeps in the finally
\* clause; when the sleep returns and stop_flag is not set, the loop head makes
\* the next connect attempt, still without any send_json call.
C14_CleanCloseReconnectsSilently ==
    [][\A c \in Conns :
          /\ (DgIterEnd(c) /\ dgConns[c][dg_ws[c]] = "closed_ok") =>
                 /\ sendLog' = sendLog
                 /\ recvPc'[c] = "sleep_loop"
                 /\ recvExc' = recvExc
          /\ (RecvSleepDone(c) /\ recvPc[c] = "sleep_loop" /\ ~stop_flag[c]) =>
                 /\ sendLog' = sendLog
                 /\ recvPc'[c] = "connecting"]_vars

C14_Witness ==
    /\ recvPc["c1"] = "connecting"
    /\ ~stop_flag["c1"]
    /\ client["c1"] = "open"
    /\ dgConns["c1"] = <<"closed_ok">>
    /\ dg_ws["c1"] = 1
    /\ Len(sendLog["c1"]) = 2

\* the audio of the logged client frames, each paired with the upstream
\* connection that was live when websocket.receive() returned the frame
Offered(c) ==
    [i \in 1..Len(frameLog[c]) |->
        <<frameLog[c][i].live,
          IF frameLog[c][i].frame.bytes # "" THEN frameLog[c][i].frame.bytes
          ELSE frameLog[c][i].frame.pcm>>]

\* a is b with some elements left out
RECURSIVE IsSubseq(_, _)
IsSubseq(a, b) ==
    IF a = <<>> THEN TRUE
    ELSE IF b = <<>> THEN FALSE
    ELSE IF Head(a) = Head(b) THEN IsSubseq(Tail(a), Tail(b))
    ELSE IsSubseq(a, Tail(b))

\* C15: the audio sent upstream is a subsequence of the client's audio frames
\* in arrival order, bytes unchanged, each sent on the connection that was
\* live when the frame was processed; a frame processed with no live
\* connection is never sent, and the one send in flight is the last frame's.
C15_AudioOutIsSubsequence ==
    \A c \in Conns :
        /\ IsSubseq(audioOut[c], Offered(c))
        /\ \A i \in DOMAIN audioOut[c] : audioOut[c][i][1] # 0
        /\ pendingAudio[c] # NoAudio =>
               /\ frameLog[c] # <<>>
               /\ pendingAudio[c] = Offered(c)[Len(frameLog[c])]
               /\ IsSubseq(Append(audioOut[c], pendingAudio[c]), Offered(c))

C15_Witness ==
    /\ Len(frameLog["c1"]) = 2
    /\ frameLog["c1"][1].live = 0
    /\ frameLog["c1"][1].frame.bytes = "a1"
    /\ frameLog["c1"][2].live = 1
    /\ frameLog["c1"][2].frame.text = "b64"
    /\ audioOut["c1"] = << <<1, "a2">> >>

\* the client frame the sender pump took last
LastFrame(c) == frameLog[c][Len(frameLog[c])].frame

\* the dg_ws.send in flight fails in this step
DgSendFails(c) ==
    /\ DgSendDone(c)
    /\ dgConns[c][pendingAudio[c][1]] # "open"

\* the sender pump is back at the head of its loop
SenderContinues(c) ==
    sendPc'[c] = IF stop_flag[c] THEN "done" ELSE "recv"

\* C16 as stated: a failed dg_ws.send is handled the same way for a binary
\* and for a text frame: send_json is called with an error event, and the
\* sender pump has not ended.
C16_SendFailureReportedForBoth ==
    [][\A c \in Conns :
          DgSendFails(c) =>
              /\ Len(sendLog'[c]) = Len(sendLog[c]) + 1
              /\ sendLog'[c][Len(sendLog'[c])].ev.kind = "error"
              /\ sendPc'[c] \notin {"done", "crashed"}]_vars

\* C16 amended: a failed dg_ws.send ends neither the sender pump nor the
\* session.  For a binary frame send_json is called with the error event
\* deepgram_send_error, and when that call returns the pump is back at the
\* head of its loop; for a text frame nothing is sent and the pump is back at
\* the head of its loop at once.
C16_SendFailureBinaryReportsTextSwallows ==
    [][\A c \in Conns :
          /\ DgSendFails(c) =>
                 /\ IF LastFrame(c).bytes # ""
                    THEN /\ sendLog'[c] =
                                Append(sendLog[c],
                                       [ev |-> ErrorEvent("deepgram_send_error"),
                                        by |-> "send", st |-> "inflight"])
                         /\ sendPc'[c] = "send_err"
                    ELSE /\ sendLog' = sendLog
                         /\ SenderContinues(c)
                 /\ audioOut' = audioOut
                 /\ mainPc' = mainPc /\ recvPc' = recvPc
                 /\ stop_flag' = stop_flag /\ client' = client
          /\ (SendErrDone(c) /\ client[c] = "open") =>
                 /\ SenderContinues(c)
                 /\ mainPc' = mainPc /\ recvPc' = recvPc
                 /\ stop_flag' = stop_flag /\ client' = client]_vars

C16_Witness ==
    /\ Len(frameLog["c1"]) = 2
    /\ frameLog["c1"][1].frame.bytes = "a1" /\ frameLog["c1"][1].live = 1
    /\ frameLog["c1"][2].frame.text = "b64" /\ frameLog["c1"][2].live = 2
    /\ audioOut["c1"] = <<>>
    /\ pendingAudio["c1"] = NoAudio
    /\ sendPc["c1"] = "recv"
    /\ mainPc["c1"] = "waiting"
    /\ Cardinality({i \in DOMAIN sendLog["c1"] :
                       sendLog["c1"][i].ev.kind = "error"}) = 1

\* the store after session s has been registered: s is present, with the
\* messages it had, or none if it was absent; no other entry has changed
Registered(s) ==
    /\ SESSIONS'[s].present
    /\ SESSIONS'[s].messages =
           IF SESSIONS[s].present THEN SESSIONS[s].messages ELSE <<>>
    /\ \A t \in SessionIds \ {s} : SESSIONS'[t] = SESSIONS[t]

\* C17 as stated: accepting a client connection registers its session id,
\* with an empty sequence if it was absent and with its messages unchanged
\* if it was present.
C17_AcceptRegisters ==
    [][\A c \in Conns : Accept(c) => Registered(session_id[c])]_vars

\* C17 amended: accepting a client connection while a key is configured
\* registers its session id, with an empty sequence if it was absent and
\* with its messages unchanged if it was present; without a key the store is
\* left as it is.  A registered id stays registered, so that the relay
\* sessions with one id append to one sequence.
C17_AcceptRegistersWithKey ==
    [][/\ \A c \in Conns :
            Accept(c) =>
                IF cred THEN Registered(session_id[c]) ELSE SESSIONS' = SESSIONS
       /\ \A s \in SessionIds : SESSIONS[s].present => SESSIONS'[s].present]_vars

C17_Witness ==
    /\ cred
    /\ session_id["c2"] = "s1"
    /\ mainPc["c2"] = "send_connecting"
    /\ mainPc["c1"] = "waiting"
    /\ Len(SESSIONS["s1"].messages) = 2
    /\ \A i \in DOMAIN appendLog["s1"] : appendLog["s1"][i][1] = "c1"

\* the last element of a non-empty sequence
Last(seq) == seq[Len(seq)]

\* C18: for every upstream event with a non-empty transcript, the is_final
\* stored and the is_final passed to send_json are true exactly when the
\* payload has a true top-level is_final and words in its first alternative.
C18_IsFinalNeedsFlagAndWords ==
    [][\A c \in Conns : \A p \in Payloads :
          (DgDeliver(c, p) /\ p.json /\ p.object /\ p.alts = "one"
             /\ p.transcript # "") =>
              /\ Len(SESSIONS'[session_id[c]].messages) =
                     Len(SESSIONS[session_id[c]].messages) + 1
              /\ Last(SESSIONS'[session_id[c]].messages).is_final =
                     (p.is_final /\ p.words)
              /\ Len(sendLog'[c]) = Len(sendLog[c]) + 1
              /\ Last(sendLog'[c]).ev.kind = "transcript"
              /\ Last(sendLog'[c]).ev.is_final = (p.is_final /\ p.words)]_vars

C18_Witness ==
    /\ raw_msg["c1"] =
           [json |-> TRUE, object |-> TRUE, alts |-> "one",
            transcript |-> "hello", words |-> FALSE, is_final |-> TRUE]
    /\ SESSIONS["s1"].messages =
           <<[transcript |-> "hello", is_final |-> TRUE],
             [transcript |-> "hello", is_final |-> FALSE]>>
    /\ Last(sendLog["c1"]).ev = Event("transcript", "hello", FALSE)

\* the transcript messages whose send_json call of relay session c returned
IsDeliveredTranscript(e) == e.ev.kind = "transcript" /\ e.st = "ok"
DeliveredTranscripts(c) ==
    LET calls == SelectSeq(sendLog[c], IsDeliveredTranscript)
    IN [i \in 1..Len(calls) |->
           [transcript |-> calls[i].ev.text, is_final |-> calls[i].ev.is_final]]

\* the messages relay session c has appended, in order
OwnAppended(c) ==
    LET IsOwn(e) == e[1] = c
    IN Messages(SelectSeq(appendLog[session_id[c]], IsOwn))

IsPrefix(a, b) ==
    /\ Len(a) <= Len(b)
    /\ \A i \in 1..Len(a) : a[i] = b[i]

\* C19: in every state the transcript messages delivered to the client of a
\* relay session are a prefix of the messages that session has appended,
\* shorter by at most one; and every appended message is in the store,
\* whatever became of its send.
C19_DeliveredIsPrefixOfAppended ==
    \A c \in Conns :
        /\ IsPrefix(DeliveredTranscripts(c), OwnAppended(c))
        /\ Len(OwnAppended(c)) - Len(DeliveredTranscripts(c)) <= 1
        /\ ReadAll(SESSIONS, session_id[c]) = Messages(appendLog[session_id[c]])

C19_Witness ==
    /\ Len(SESSIONS["s1"].messages) = 2
    /\ SESSIONS["s1"].messages[1] # SESSIONS["s1"].messages[2]
    /\ Len(DeliveredTranscripts("c1")) = 1
    /\ Last(sendLog["c1"]).ev.kind = "transcript"
    /\ Last(sendLog["c1"]).st = "failed"
    /\ recvPc["c1"] \in {"done", "crashed"}

\* the positions of sendLog[c] that hold the status s
StatusCalls(c, s) ==
    {i \in DOMAIN sendLog[c] :
        sendLog[c][i].ev.kind = "status" /\ sendLog[c][i].ev.text = s}

\* C20: with a key configured, the first event passed to send_json is the
\* connecting status, which is sent once; the connected status is sent once
\* for every upstream connection opened, by the receiver pump; and a
\* connected status has been sent before every transcript event.
C20_ClientEventOrder ==
    \A c \in Conns :
        (cred /\ sendLog[c] # <<>>) =>
            /\ StatusCalls(c, "connecting_deepgram") = {1}
            /\ sendLog[c][1].by = "main"
            /\ Cardinality(StatusCalls(c, "deepgram_connected")) = Len(dgConns[c])
            /\ \A i \in StatusCalls(c, "deepgram_connected") :
                   sendLog[c][i].by = "recv"
            /\ \A i \in DOMAIN sendLog[c] :
                   sendLog[c][i].ev.kind = "transcript" =>
                       \E j \in StatusCalls(c, "deepgram_connected") : j < i

C20_Witness ==
    /\ cred
    /\ Len(sendLog["c1"]) = 4
    /\ sendLog["c1"][3].ev.kind = "transcript"
    /\ StatusCalls("c1", "deepgram_connected") = {2, 4}
    /\ dgConns["c1"] = <<"closed_ok", "open">>

=============================================================================
